---- MODULE Spec2Model ----
(***************************************************************************)
(* Regal GL_QUADS emulation layer (src/regal/RegalQuads.cpp).              *)
(*                                                                         *)
(* The state is the field bag of Emu::Quads plus the state of the next     *)
(* dispatch layer that the emulation talks to (element-array binding and   *)
(* per-face polygon mode), and a record of the last entry point called     *)
(* with the downstream calls it issued.  Every entry point is one action.  *)
(***************************************************************************)
EXTENDS Integers, Sequences, FiniteSets

\* ---------------------------------------------------------------- bounds
\* Chunk capacity in primitives.  The source sets EMU_QUADS_BUFFER_SIZE to
\* 1024 (RegalQuads.cpp line 183); the model scales it down so that chunk
\* boundaries are reached with a handful of vertices.
EMU_QUADS_BUFFER_SIZE == 2

K == EMU_QUADS_BUFFER_SIZE

\* Largest vertex count drawn: one quad more than two full chunks of strip
\* steps and one full chunk of quads, plus one vertex that masking drops.
MaxCount == 4 * K + 5

\* ---------------------------------------------------------------- enums
Styles == {"GL_FILL", "GL_LINE", "GL_POINT"}
Faces == {"GL_FRONT", "GL_BACK", "GL_FRONT_AND_BACK"}
Windings == {"GL_CW", "GL_CCW"}
ShadeModels == {"GL_SMOOTH", "GL_FLAT"}
ProvokeModes == {"GL_FIRST_VERTEX_CONVENTION", "GL_LAST_VERTEX_CONVENTION"}
QuadModes == {"GL_QUADS", "GL_QUAD_STRIP"}

\* An enum value that no setter recognizes.
Unrecognized == "GL_NONE"

\* Buffer names the application binds, and the name glGenBuffers hands out
\* for the scratch index buffer.
AppBuffers == {0, 1}
GenBufferNames == {7}

VARIABLES
  windingMode,          \* Quads::windingMode
  frontFaceMode,        \* Quads::frontFaceMode
  backFaceMode,         \* Quads::backFaceMode
  shadeMode,            \* Quads::shadeMode
  provokeMode,          \* Quads::provokeMode
  cullFace,             \* Quads::cullFace
  cullingFaces,         \* Quads::cullingFaces
  convention,           \* Quads::gl_quads_follow_provoking_vertex_convention
  elementArrayBuffer,   \* Quads::elementArrayBuffer (shadowed binding)
  quadIndexBuffer,      \* Quads::quadIndexBuffer (scratch buffer name)
  dsBinding,            \* next layer: current GL_ELEMENT_ARRAY_BUFFER binding
  dsFrontMode,          \* next layer: polygon mode of the front face
  dsBackMode,           \* next layer: polygon mode of the back face
  call,                 \* last entry point called: [op, args]
  ret,                  \* what it returned: "true", "false" or "void"
  calls                 \* downstream calls it issued, in order

tracked == <<windingMode, frontFaceMode, backFaceMode, shadeMode, provokeMode,
             cullFace, cullingFaces, convention, elementArrayBuffer,
             quadIndexBuffer>>
nextLayer == <<dsBinding, dsFrontMode, dsBackMode>>
vars == <<tracked, nextLayer, call, ret, calls>>

\* ---------------------------------------------------------------- helpers
\* Index arithmetic is GLuint arithmetic; with first >= 0 and the counts drawn
\* here no sum comes near 2^32, so the sums are written as plain integers.
Min(a, b) == IF a < b THEN a ELSE b

\* count &= ~0x3 (quads) or ~0x1 (strips), for count >= 0
MaskCount(mode, count) ==
  IF mode = "GL_QUADS" THEN count - (count % 4) ELSE count - (count % 2)

\* Downstream call records.
BindBufferCall(target, buffer) ==
  [fn |-> "glBindBuffer", target |-> target, buffer |-> buffer]
BufferDataCall(size, data) ==
  [fn |-> "glBufferData", size |-> size, data |-> data]
DrawElementsBuffer(prim, cnt) ==
  [fn |-> "glDrawElements", prim |-> prim, count |-> cnt, client |-> FALSE,
   indices |-> << >>]
DrawElementsClient(prim, cnt, indices) ==
  [fn |-> "glDrawElements", prim |-> prim, count |-> cnt, client |-> TRUE,
   indices |-> SubSeq(indices, 1, cnt)]
DrawArraysCall(prim, first, cnt) ==
  [fn |-> "glDrawArrays", prim |-> prim, first |-> first, count |-> cnt]
PolygonModeCall(face, style) ==
  [fn |-> "glPolygonMode", face |-> face, style |-> style]

\* ---------------------------------------------------------------- generators
\* Each generator loop writes, for ii in 0..n-1, a fixed pattern of offsets
\* at indices[ii*per + base + j] = first + ii*stride + off[j].

\* The smooth quad split with its second triangle started at v0.
QuadsTriSmoothOffRotated == <<0, 1, 2, 0, 2, 3>>

\* quads -> triangles, shadeMode != GL_FLAT
QuadsTriSmoothOff == <<0, 1, 2, 3, 0, 2>>
\* quads -> triangles, GL_FLAT, last vertex convention (or convention off)
QuadsTriFlatLastOff == <<0, 1, 3, 1, 2, 3>>
\* quads -> triangles, GL_FLAT, first vertex convention
QuadsTriFlatFirstOff == <<1, 2, 0, 2, 3, 0>>
\* quad strip -> triangles, shadeMode != GL_FLAT ("split 1", the #if 1 arm)
StripTriSmoothOff == <<1, 3, 0, 2, 0, 3>>
\* A flat strip split whose first triangle ends on v2 instead of v3.
StripTriFlatLastOffOnV2 == <<0, 1, 2, 2, 1, 3>>

\* quad strip -> triangles, GL_FLAT, last vertex convention (or convention off)
StripTriFlatLastOff == <<0, 1, 3, 2, 0, 3>>
\* quad strip -> triangles, GL_FLAT, first vertex convention
StripTriFlatFirstOff == <<1, 3, 0, 3, 2, 0>>
\* quads -> outline, GL_FLAT with first vertex convention
QuadsLineFlatFirstOff == <<0, 1, 0, 3, 1, 2, 3, 2>>
\* quads -> outline, otherwise
QuadsLineOtherOff == <<1, 0, 0, 3, 1, 2, 2, 3>>
\* quad strip -> outline, GL_FLAT with first vertex convention
StripLineFlatFirstOff == <<3, 1, 1, 0, 2, 0>>
\* quad strip -> outline, otherwise (written after the two seed indices)
StripLineOtherOff == <<0, 2, 2, 3, 1, 3>>

\* for (ii = 0; ii < n; ii++) indices[ii*per + j] = first + ii*stride + off[j]
PatternLoop(first, n, stride, off) ==
  [k \in 1..(n * Len(off)) |->
     first + ((k - 1) \div Len(off)) * stride + off[((k - 1) % Len(off)) + 1]]

\* The flat / first-vertex test of the two outline paths.
FlatFirst ==
  shadeMode = "GL_FLAT" /\ convention /\ provokeMode = "GL_FIRST_VERTEX_CONVENTION"

\* A last-vertex test that forgets the convention flag.
FlatLastIgnoringFlag == provokeMode = "GL_LAST_VERTEX_CONVENTION"

\* The last-vertex test of the two triangle paths (inside the GL_FLAT arm).
FlatLast ==
  ~convention \/ provokeMode = "GL_LAST_VERTEX_CONVENTION"

\* n for a chunk of quads and of strip steps.
QuadsN(myCount) == Min(myCount \div 4, K)
StripN(myCount) == Min(myCount \div 2 - 1, K)

\* indices[] of the quads -> triangles path before the chunk loop
QuadsTriIndices(first, n) ==
  IF shadeMode # "GL_FLAT" THEN PatternLoop(first, n, 4, QuadsTriSmoothOff)
  ELSE IF FlatLast THEN PatternLoop(first, n, 4, QuadsTriFlatLastOff)
  ELSE PatternLoop(first, n, 4, QuadsTriFlatFirstOff)

\* indices[] of the quad strip -> triangles path before the chunk loop
StripTriIndices(first, n) ==
  IF shadeMode # "GL_FLAT" THEN PatternLoop(first, n, 2, StripTriSmoothOff)
  ELSE IF FlatLast THEN PatternLoop(first, n, 2, StripTriFlatLastOff)
  ELSE PatternLoop(first, n, 2, StripTriFlatFirstOff)

\* indices[] of the quads -> outline path before the chunk loop
QuadsLineIndices(first, n) ==
  IF FlatFirst THEN PatternLoop(first, n, 4, QuadsLineFlatFirstOff)
  ELSE PatternLoop(first, n, 4, QuadsLineOtherOff)

\* indices[] of the quad strip -> outline path before the chunk loop:
\* either the per-step loop followed by the trailing edge, or the seed edge
\* followed by the per-step loop.
StripLineIndices(first, n) ==
  IF FlatFirst
  THEN PatternLoop(first, n, 2, StripLineFlatFirstOff)
         \o <<(first + n * 2 + 1), (first + n * 2 + 0)>>
  ELSE <<(first + 0), (first + 1)>>
         \o PatternLoop(first, n, 2, StripLineOtherOff)

\* A chunk loop that forgets to advance the indices between chunks.
AddToPrefixSkipped(indices, m, delta) == indices

\* for (ii = 0; ii < m; ii++) indices[ii] += delta
AddToPrefix(indices, m, delta) ==
  [k \in 1..Len(indices) |->
     IF k <= m THEN (indices[k] + delta) ELSE indices[k]]

\* ---------------------------------------------------------------- chunk loops
\* n = ((myCount/4) < SIZE) ? (myCount/4) : SIZE, or the strip form
ChunkN(mode, myCount) ==
  IF mode = "GL_QUADS" THEN QuadsN(myCount) ELSE StripN(myCount)

\* Vertices one full chunk advances by, and the loop's threshold on myCount.
ChunkAdvance(mode) == IF mode = "GL_QUADS" THEN K * 4 ELSE K * 2
ChunkThreshold(mode) == IF mode = "GL_QUADS" THEN 4 ELSE 2

\* What one pass of a triangle loop submits: upload n*6 indices to the
\* bound scratch buffer, then draw n*6 indices from offset 0 of it.
TriSubmit(indices, n) ==
  <<BufferDataCall(n * 6 * 4, SubSeq(indices, 1, n * 6)),
    DrawElementsBuffer("GL_TRIANGLES", n * 6)>>

\* What one pass of an outline loop submits: cnt indices from client memory.
LineSubmit(indices, cnt) ==
  <<DrawElementsClient("GL_LINES", cnt, indices)>>

\* while (myCount >= T) { submit; myCount -= A;
\*   if (myCount >= T) { n = ...; for (ii < n * 6) indices[ii] += A; } }
RECURSIVE TriLoop(_, _, _, _, _)
TriLoop(mode, indices, n, myCount, issued) ==
  IF myCount >= ChunkThreshold(mode)
  THEN LET out == issued \o TriSubmit(indices, n)
           rest == myCount - ChunkAdvance(mode)
       IN IF rest >= ChunkThreshold(mode)
          THEN LET n2 == ChunkN(mode, rest)
               IN TriLoop(mode, AddToPrefix(indices, n2 * 6, ChunkAdvance(mode)),
                          n2, rest, out)
          ELSE TriLoop(mode, indices, n, rest, out)
  ELSE issued

\* Indices per submission of the outline loops: n*8 for quads, n*6+2 for strips.
LineCount(mode, n) == IF mode = "GL_QUADS" THEN n * 8 ELSE n * 6 + 2

RECURSIVE LineLoop(_, _, _, _, _)
LineLoop(mode, indices, n, myCount, issued) ==
  IF myCount >= ChunkThreshold(mode)
  THEN LET out == issued \o LineSubmit(indices, LineCount(mode, n))
           rest == myCount - ChunkAdvance(mode)
       IN IF rest >= ChunkThreshold(mode)
          THEN LET n2 == ChunkN(mode, rest)
               IN LineLoop(mode,
                           AddToPrefix(indices, LineCount(mode, n2), ChunkAdvance(mode)),
                           n2, rest, out)
          ELSE LineLoop(mode, indices, n, rest, out)
  ELSE issued

\* A triangle pass that leaves the scratch buffer bound.
RebindScratch == quadIndexBuffer

\* The buffer bound after a triangle pass.
RebindBuffer == elementArrayBuffer

\* Triangle path after the fill-style force: generate, bind scratch, loop,
\* rebind the shadowed binding.
TriangleCalls(mode, first, myCount) ==
  LET n == ChunkN(mode, myCount)
      indices == IF mode = "GL_QUAD_STRIP" THEN StripTriIndices(first, n)
                 ELSE QuadsTriIndices(first, n)
  IN <<BindBufferCall("GL_ELEMENT_ARRAY_BUFFER", quadIndexBuffer)>>
       \o TriLoop(mode, indices, n, myCount, << >>)
       \o <<BindBufferCall("GL_ELEMENT_ARRAY_BUFFER", RebindBuffer)>>

\* Outline path after the fill-style force: generate and loop; no binding.
OutlineCalls(mode, first, myCount) ==
  LET n == ChunkN(mode, myCount)
      indices == IF mode = "GL_QUAD_STRIP" THEN StripLineIndices(first, n)
                 ELSE QuadsLineIndices(first, n)
  IN LineLoop(mode, indices, n, myCount, << >>)

\* Points path: one direct point draw of the masked range.
PointCalls(mode, first, myCount) ==
  <<DrawArraysCall("GL_POINTS", first, myCount)>>

\* if (front != style || back != style) glPolygonMode(FRONT_AND_BACK, style)
ForceCalls(style) ==
  IF frontFaceMode # style \/ backFaceMode # style
  THEN <<PolygonModeCall("GL_FRONT_AND_BACK", style)>> ELSE << >>

\* A restore that forgets the back face.
RestoreCallsFrontOnly(style) ==
  IF frontFaceMode # style
  THEN <<PolygonModeCall("GL_FRONT", frontFaceMode)>> ELSE << >>

\* if (front != style) glPolygonMode(FRONT, front);
\* if (back != style) glPolygonMode(BACK, back)
RestoreCalls(style) ==
  (IF frontFaceMode # style
   THEN <<PolygonModeCall("GL_FRONT", frontFaceMode)>> ELSE << >>)
  \o (IF backFaceMode # style
      THEN <<PolygonModeCall("GL_BACK", backFaceMode)>> ELSE << >>)

\* drawQuads / drawLines / drawPoints
DrawFlag(style) ==
  IF ~cullingFaces THEN frontFaceMode = style \/ backFaceMode = style
  ELSE IF cullFace = "GL_BACK" THEN frontFaceMode = style
  ELSE IF cullFace = "GL_FRONT" THEN backFaceMode = style
  ELSE FALSE

\* A count check that lets three vertices through.
TooFewBelowThree(count) == count < 3

\* if (count < 4) return true
TooFew(count) == count < 4

\* if (cullingFaces && cullFace == GL_FRONT_AND_BACK) return true, and the
\* final else of the culling switch
CullsAll ==
  cullingFaces /\ (cullFace = "GL_FRONT_AND_BACK" \/ cullFace \notin {"GL_BACK", "GL_FRONT"})

\* Quads::glDrawArrays: what it returns and the downstream calls it makes.
DrawArraysResult(mode, first, count) ==
  IF mode \notin QuadModes THEN [ret |-> "false", calls |-> << >>]
  ELSE IF count < 0 THEN [ret |-> "false", calls |-> << >>]
  ELSE IF TooFew(count) THEN [ret |-> "true", calls |-> << >>]
  ELSE IF CullsAll THEN [ret |-> "true", calls |-> << >>]
  ELSE LET myCount == MaskCount(mode, count)
       IN IF DrawFlag("GL_FILL")
          THEN [ret |-> "true",
                calls |-> ForceCalls("GL_FILL")
                            \o TriangleCalls(mode, first, myCount)
                            \o RestoreCalls("GL_FILL")]
          ELSE IF DrawFlag("GL_LINE")
          THEN [ret |-> "true",
                calls |-> ForceCalls("GL_LINE")
                            \o OutlineCalls(mode, first, myCount)
                            \o RestoreCalls("GL_LINE")]
          ELSE IF DrawFlag("GL_POINT")
          THEN [ret |-> "true",
                calls |-> ForceCalls("GL_POINT")
                            \o PointCalls(mode, first, myCount)
                            \o RestoreCalls("GL_POINT")]
          ELSE [ret |-> "true", calls |-> << >>]

\* ---------------------------------------------------------------- next layer
\* The effect of a sequence of downstream calls on the next layer's
\* element-array binding and per-face polygon modes.
RECURSIVE ApplyCalls(_, _)
ApplyCalls(ds, cs) ==
  IF cs = << >> THEN ds
  ELSE LET c == Head(cs)
           ds2 == IF c.fn = "glBindBuffer" /\ c.target = "GL_ELEMENT_ARRAY_BUFFER"
                  THEN [ds EXCEPT !.binding = c.buffer]
                  ELSE IF c.fn = "glPolygonMode"
                  THEN [ds EXCEPT
                          !.front = IF c.face \in {"GL_FRONT", "GL_FRONT_AND_BACK"}
                                    THEN c.style ELSE @,
                          !.back = IF c.face \in {"GL_BACK", "GL_FRONT_AND_BACK"}
                                   THEN c.style ELSE @]
                  ELSE ds
       IN ApplyCalls(ds2, Tail(cs))

Downstream == [binding |-> dsBinding, front |-> dsFrontMode, back |-> dsBackMode]

\* The next layer after the calls cs.
Forward(cs) ==
  LET ds == ApplyCalls(Downstream, cs)
  IN /\ dsBinding' = ds.binding
     /\ dsFrontMode' = ds.front
     /\ dsBackMode' = ds.back

\* ---------------------------------------------------------------- entry points
Called(op, args, r, cs) ==
  /\ call' = [op |-> op, args |-> args]
  /\ ret' = r
  /\ calls' = cs

\* Quads::Init
Init ==
  /\ elementArrayBuffer = 0
  /\ quadIndexBuffer \in GenBufferNames
  /\ windingMode = "GL_CCW"
  /\ frontFaceMode = "GL_FILL"
  /\ backFaceMode = "GL_FILL"
  /\ shadeMode = "GL_SMOOTH"
  /\ provokeMode = "GL_LAST_VERTEX_CONVENTION"
  /\ cullFace = "GL_BACK"
  /\ convention \in BOOLEAN
  /\ cullingFaces = FALSE
  /\ dsBinding = 0
  /\ dsFrontMode = "GL_FILL"
  /\ dsBackMode = "GL_FILL"
  /\ call = [op |-> "Init", args |-> << >>]
  /\ ret = "void"
  /\ calls = << >>

\* Quads::glDrawArrays
glDrawArrays(mode, first, count) ==
  LET r == DrawArraysResult(mode, first, count)
  IN /\ Called("glDrawArrays", <<mode, first, count>>, r.ret, r.calls)
     /\ Forward(r.calls)
     /\ UNCHANGED tracked

\* Quads::glBindBuffer; the application's bind itself reaches the next layer.
glBindBuffer(target, buffer) ==
  /\ elementArrayBuffer' =
       IF target = "GL_ELEMENT_ARRAY_BUFFER" THEN buffer ELSE elementArrayBuffer
  /\ Called("glBindBuffer", <<target, buffer>>, "void", << >>)
  /\ Forward(<<BindBufferCall(target, buffer)>>)
  /\ UNCHANGED <<windingMode, frontFaceMode, backFaceMode, shadeMode, provokeMode,
                 cullFace, cullingFaces, convention, quadIndexBuffer>>

\* Quads::glFrontFace
glFrontFace(mode) ==
  /\ windingMode' = IF mode \in {"GL_CW", "GL_CCW"} THEN mode ELSE windingMode
  /\ Called("glFrontFace", <<mode>>, "void", << >>)
  /\ UNCHANGED <<frontFaceMode, backFaceMode, shadeMode, provokeMode, cullFace,
                 cullingFaces, convention, elementArrayBuffer, quadIndexBuffer,
                 nextLayer>>

\* Quads::glPolygonMode; the application's call itself reaches the next layer.
glPolygonMode(f, m) ==
  /\ frontFaceMode' =
       IF f \in {"GL_FRONT", "GL_FRONT_AND_BACK"} THEN m ELSE frontFaceMode
  /\ backFaceMode' =
       IF f \in {"GL_BACK", "GL_FRONT_AND_BACK"} THEN m ELSE backFaceMode
  /\ Called("glPolygonMode", <<f, m>>, "void", << >>)
  /\ Forward(<<PolygonModeCall(f, m)>>)
  /\ UNCHANGED <<windingMode, shadeMode, provokeMode, cullFace, cullingFaces,
                 convention, elementArrayBuffer, quadIndexBuffer>>

\* Quads::glShadeModel
glShadeModel(mode) ==
  /\ shadeMode' = IF mode = "GL_SMOOTH" \/ mode = "GL_FLAT" THEN mode ELSE shadeMode
  /\ Called("glShadeModel", <<mode>>, "void", << >>)
  /\ UNCHANGED <<windingMode, frontFaceMode, backFaceMode, provokeMode, cullFace,
                 cullingFaces, convention, elementArrayBuffer, quadIndexBuffer,
                 nextLayer>>

\* Quads::glProvokingVertex
glProvokingVertex(mode) ==
  /\ provokeMode' =
       IF mode = "GL_FIRST_VERTEX_CONVENTION" \/ mode = "GL_LAST_VERTEX_CONVENTION"
       THEN mode ELSE provokeMode
  /\ Called("glProvokingVertex", <<mode>>, "void", << >>)
  /\ UNCHANGED <<windingMode, frontFaceMode, backFaceMode, shadeMode, cullFace,
                 cullingFaces, convention, elementArrayBuffer, quadIndexBuffer,
                 nextLayer>>

\* Quads::glCullFace
glCullFace(face) ==
  /\ cullFace' =
       IF face \in {"GL_FRONT", "GL_BACK", "GL_FRONT_AND_BACK"} THEN face ELSE cullFace
  /\ Called("glCullFace", <<face>>, "void", << >>)
  /\ UNCHANGED <<windingMode, frontFaceMode, backFaceMode, shadeMode, provokeMode,
                 cullingFaces, convention, elementArrayBuffer, quadIndexBuffer,
                 nextLayer>>

\* Quads::glEnable
glEnable(cap) ==
  /\ cullingFaces' = IF cap = "GL_CULL_FACE" THEN TRUE ELSE cullingFaces
  /\ Called("glEnable", <<cap>>, "void", << >>)
  /\ UNCHANGED <<windingMode, frontFaceMode, backFaceMode, shadeMode, provokeMode,
                 cullFace, convention, elementArrayBuffer, quadIndexBuffer,
                 nextLayer>>

\* Quads::glDisable
glDisable(cap) ==
  /\ cullingFaces' = IF cap = "GL_CULL_FACE" THEN FALSE ELSE cullingFaces
  /\ Called("glDisable", <<cap>>, "void", << >>)
  /\ UNCHANGED <<windingMode, frontFaceMode, backFaceMode, shadeMode, provokeMode,
                 cullFace, convention, elementArrayBuffer, quadIndexBuffer,
                 nextLayer>>

\* ---------------------------------------------------------------- inputs
Caps == {"GL_CULL_FACE", "GL_BLEND"}
Targets == {"GL_ELEMENT_ARRAY_BUFFER", "GL_ARRAY_BUFFER"}

\* Spec: the state tracker under every setter, with recognized and
\* unrecognized arguments, and draws on both sides of the count checks.
StateFirsts == {1}
StateCounts == {-1, 0, 3, 4, 7}

Next ==
  \/ \E mode \in QuadModes \cup {"GL_TRIANGLES"}, first \in StateFirsts,
        count \in StateCounts :
       glDrawArrays(mode, first, count)
  \/ \E mode \in Windings \cup {Unrecognized} : glFrontFace(mode)
  \/ \E f \in Faces \cup {Unrecognized}, m \in Styles \cup {Unrecognized} :
       glPolygonMode(f, m)
  \/ \E mode \in ShadeModels \cup {Unrecognized} : glShadeModel(mode)
  \/ \E mode \in ProvokeModes \cup {Unrecognized} : glProvokingVertex(mode)
  \/ \E face \in Faces \cup {Unrecognized} : glCullFace(face)
  \/ \E cap \in Caps : glEnable(cap)
  \/ \E cap \in Caps : glDisable(cap)

Spec == Init /\ [][Next]_vars

\* SpecDraw: the generators and the chunked emitter under every vertex count
\* up to MaxCount, every shading / provoking-vertex / fill-style combination
\* and application buffer binds.
DrawFirsts == {0, 3}
DrawCounts == 0 .. MaxCount

NextDraw ==
  \/ \E mode \in QuadModes, first \in DrawFirsts, count \in DrawCounts :
       glDrawArrays(mode, first, count)
  \/ \E target \in Targets, buffer \in AppBuffers : glBindBuffer(target, buffer)
  \/ \E f \in Faces, m \in Styles : glPolygonMode(f, m)
  \/ \E mode \in ShadeModels : glShadeModel(mode)
  \/ \E mode \in ProvokeModes : glProvokingVertex(mode)

SpecDraw == Init /\ [][NextDraw]_vars

\* ---------------------------------------------------------------- reading the log
IsDraw == call.op = "glDrawArrays"
DMode == call.args[1]
DFirst == call.args[2]
DCount == call.args[3]

\* The index sequence of every indexed submission of primitive prim among
\* the calls cs, in order: client indices as passed, buffer indices as the
\* leading part of the data last uploaded to the bound buffer.
RECURSIVE IndexedSubs(_, _, _)
IndexedSubs(cs, data, prim) ==
  IF cs = << >> THEN << >>
  ELSE LET c == Head(cs)
       IN IF c.fn = "glBufferData" THEN IndexedSubs(Tail(cs), c.data, prim)
          ELSE IF c.fn = "glDrawElements" /\ c.prim = prim
          THEN <<IF c.client THEN c.indices ELSE SubSeq(data, 1, c.count)>>
                 \o IndexedSubs(Tail(cs), data, prim)
          ELSE IndexedSubs(Tail(cs), data, prim)

RECURSIVE Flatten(_)
Flatten(ss) == IF ss = << >> THEN << >> ELSE Head(ss) \o Flatten(Tail(ss))

TriSubs == IndexedSubs(calls, << >>, "GL_TRIANGLES")
LineSubs == IndexedSubs(calls, << >>, "GL_LINES")

\* The primitive kinds submitted by the calls cs.
KindsOf(cs) ==
  {cs[k].prim : k \in {j \in 1..Len(cs) : cs[j].fn \in {"glDrawElements", "glDrawArrays"}}}

\* The six indices at primitive q of a flattened triangle sequence.
Six(T, q) == SubSeq(T, 6 * q + 1, 6 * q + 6)

\* A draw of kind mode that got past the count and culling checks and
\* resolved to triangles.
TriangleDraw(mode) ==
  /\ IsDraw /\ DMode = mode /\ DCount >= 4
  /\ KindsOf(calls) = {"GL_TRIANGLES"}

\* ---------------------------------------------------------------- C1
\* C1 as stated: under smooth shading every quad (v0,v1,v2,v3) of a QUADS
\* draw that resolves to triangles is emitted as (v0,v1,v2, v0,v2,v3), and
\* draw(QUADS, 0, 8) in the default state makes one indexed-triangle
\* submission [0,1,2,0,2,3,4,5,6,4,6,7].
C1_SmoothQuadsAsStated ==
  (TriangleDraw("GL_QUADS") /\ shadeMode = "GL_SMOOTH") =>
    LET T == Flatten(TriSubs)
        Q == (DCount - (DCount % 4)) \div 4
    IN /\ Len(T) = 6 * Q
       /\ \A q \in 0..(Q - 1) :
            LET v0 == DFirst + 4 * q
            IN Six(T, q) = <<v0, v0 + 1, v0 + 2, v0, v0 + 2, v0 + 3>>
       /\ (DFirst = 0 /\ DCount = 8 /\ frontFaceMode = "GL_FILL"
             /\ backFaceMode = "GL_FILL")
            => TriSubs = << <<0, 1, 2, 0, 2, 3, 4, 5, 6, 4, 6, 7>> >>

\* C1 (amended): under smooth shading every quad (v0,v1,v2,v3) of a QUADS
\* draw that resolves to triangles is emitted as (v0,v1,v2, v3,v0,v2), the
\* same two triangles with the second one started at v3; draw(QUADS, 0, 8)
\* in the default state makes exactly one indexed-triangle submission, with
\* index sequence [0,1,2,3,0,2,4,5,6,7,4,6].
C1_SmoothQuads ==
  (TriangleDraw("GL_QUADS") /\ shadeMode = "GL_SMOOTH") =>
    LET T == Flatten(TriSubs)
        Q == (DCount - (DCount % 4)) \div 4
    IN /\ Len(T) = 6 * Q
       /\ \A q \in 0..(Q - 1) :
            LET v0 == DFirst + 4 * q
            IN Six(T, q) = <<v0, v0 + 1, v0 + 2, v0 + 3, v0, v0 + 2>>
       /\ (DFirst = 0 /\ DCount = 8 /\ frontFaceMode = "GL_FILL"
             /\ backFaceMode = "GL_FILL")
            => TriSubs = << <<0, 1, 2, 3, 0, 2, 4, 5, 6, 7, 4, 6>> >>

\* C1 witness: the default-state draw(QUADS, 0, 8) has made its submission.
C1_Witness ==
  /\ TriangleDraw("GL_QUADS") /\ shadeMode = "GL_SMOOTH"
  /\ DFirst = 0 /\ DCount = 8
  /\ frontFaceMode = "GL_FILL" /\ backFaceMode = "GL_FILL"
  /\ elementArrayBuffer = 0
  /\ Len(TriSubs) = 1 /\ Len(TriSubs[1]) = 12

\* ---------------------------------------------------------------- C2
\* C2: under flat shading every quad (v0,v1,v2,v3) of a QUADS draw that
\* resolves to triangles is emitted as (v0,v1,v3, v1,v2,v3) when provokeMode
\* is LAST_VERTEX or the convention flag is false, and as (v1,v2,v0, v2,v3,v0)
\* when the flag is true and provokeMode is FIRST_VERTEX; each triangle ends
\* on the quad's provoking vertex; draw(QUADS, 0, 8) with flat + LAST_VERTEX
\* submits [0,1,3,1,2,3,4,5,7,5,6,7].
C2_FlatQuads ==
  (TriangleDraw("GL_QUADS") /\ shadeMode = "GL_FLAT") =>
    LET T == Flatten(TriSubs)
        Q == (DCount - (DCount % 4)) \div 4
        last == provokeMode = "GL_LAST_VERTEX_CONVENTION" \/ ~convention
    IN /\ Len(T) = 6 * Q
       /\ \A q \in 0..(Q - 1) :
            LET v0 == DFirst + 4 * q
                provoking == IF last THEN v0 + 3 ELSE v0
            IN /\ Six(T, q) = IF last
                              THEN <<v0, v0 + 1, v0 + 3, v0 + 1, v0 + 2, v0 + 3>>
                              ELSE <<v0 + 1, v0 + 2, v0, v0 + 2, v0 + 3, v0>>
               /\ T[6 * q + 3] = provoking /\ T[6 * q + 6] = provoking
       /\ (DFirst = 0 /\ DCount = 8 /\ provokeMode = "GL_LAST_VERTEX_CONVENTION")
            => Flatten(TriSubs) = <<0, 1, 3, 1, 2, 3, 4, 5, 7, 5, 6, 7>>

\* C2 witness: a flat, first-vertex QUADS draw under the convention flag.
C2_Witness ==
  /\ TriangleDraw("GL_QUADS") /\ shadeMode = "GL_FLAT"
  /\ convention /\ provokeMode = "GL_FIRST_VERTEX_CONVENTION"
  /\ DFirst = 0 /\ DCount = 8
  /\ Flatten(TriSubs) = <<1, 2, 0, 2, 3, 0, 5, 6, 4, 6, 7, 4>>

\* ---------------------------------------------------------------- C3
\* C3 as stated: under flat shading with LAST_VERTEX (or the convention flag
\* false) every strip step with previous pair (v0,v1) and new pair (v2,v3)
\* is emitted as (v0,v1,v2, v2,v1,v3).
C3_FlatStripAsStated ==
  (TriangleDraw("GL_QUAD_STRIP") /\ shadeMode = "GL_FLAT"
     /\ (provokeMode = "GL_LAST_VERTEX_CONVENTION" \/ ~convention)) =>
    LET T == Flatten(TriSubs)
        Q == (DCount - (DCount % 2)) \div 2 - 1
    IN /\ Len(T) = 6 * Q
       /\ \A q \in 0..(Q - 1) :
            LET v0 == DFirst + 2 * q
            IN Six(T, q) = <<v0, v0 + 1, v0 + 2, v0 + 2, v0 + 1, v0 + 3>>

\* C3 (amended): under flat shading with LAST_VERTEX (or the convention flag
\* false) every strip step with previous pair (v0,v1) and new pair (v2,v3)
\* is emitted as (v0,v1,v3, v2,v0,v3), both triangles ending on v3.
C3_FlatStrip ==
  (TriangleDraw("GL_QUAD_STRIP") /\ shadeMode = "GL_FLAT"
     /\ (provokeMode = "GL_LAST_VERTEX_CONVENTION" \/ ~convention)) =>
    LET T == Flatten(TriSubs)
        Q == (DCount - (DCount % 2)) \div 2 - 1
    IN /\ Len(T) = 6 * Q
       /\ \A q \in 0..(Q - 1) :
            LET v0 == DFirst + 2 * q
            IN Six(T, q) = <<v0, v0 + 1, v0 + 3, v0 + 2, v0, v0 + 3>>

\* C3 witness: a flat, last-vertex strip of more steps than one chunk holds.
C3_Witness ==
  /\ TriangleDraw("GL_QUAD_STRIP") /\ shadeMode = "GL_FLAT"
  /\ provokeMode = "GL_LAST_VERTEX_CONVENTION"
  /\ DCount \div 2 - 1 > K
  /\ Len(Flatten(TriSubs)) = 6 * (DCount \div 2 - 1)

\* ---------------------------------------------------------------- C4
BindCallsOf(cs) == SelectSeq(cs, LAMBDA c : c.fn = "glBindBuffer")

\* C4: after every draw returns, the next layer's index-buffer binding
\* equals elementArrayBuffer and is not the scratch buffer;
\* elementArrayBuffer is the handle of the most recent glBindBuffer on
\* GL_ELEMENT_ARRAY_BUFFER (0 if none): a bind on that target sets it, a
\* bind on another target and every other call leave it alone; draws that
\* emit lines or points issue no bind call.
C4_BindingRestored ==
  [][ /\ call'.op = "glDrawArrays" =>
           /\ dsBinding' = elementArrayBuffer'
           /\ dsBinding' # quadIndexBuffer'
           /\ elementArrayBuffer' = elementArrayBuffer
           /\ KindsOf(calls') \cap {"GL_LINES", "GL_POINTS"} # {}
                => BindCallsOf(calls') = << >>
      /\ call'.op = "glBindBuffer" =>
           elementArrayBuffer' = IF call'.args[1] = "GL_ELEMENT_ARRAY_BUFFER"
                                 THEN call'.args[2] ELSE elementArrayBuffer
      /\ call'.op \notin {"glDrawArrays", "glBindBuffer"} =>
           elementArrayBuffer' = elementArrayBuffer
    ]_vars

\* C4 witness: a triangle draw has used the scratch buffer while the
\* application had buffer 1 bound, and buffer 1 is bound again.
C4_Witness ==
  /\ TriangleDraw("GL_QUADS")
  /\ elementArrayBuffer = 1
  /\ Len(BindCallsOf(calls)) = 2
  /\ BindCallsOf(calls)[1].buffer = quadIndexBuffer
  /\ dsBinding = 1

\* ---------------------------------------------------------------- C5
\* C5: a QUADS draw of 4*(K+1) vertices that resolves to triangles makes
\* exactly two indexed-triangle submissions, of K quads and of 1 quad, the
\* second being the first chunk's first quad shifted by 4K; for any number
\* of quads Q there are ceil(Q/K) submissions, each of min(remaining, K)
\* quads, and their concatenation is the generator's output for Q quads.
C5_QuadChunks ==
  TriangleDraw("GL_QUADS") =>
    LET Q == (DCount - (DCount % 4)) \div 4
        chunks == (Q + K - 1) \div K
    IN /\ Flatten(TriSubs) = QuadsTriIndices(DFirst, Q)
       /\ Len(TriSubs) = chunks
       /\ \A j \in 1..Len(TriSubs) :
            Len(TriSubs[j]) = 6 * Min(Q - (j - 1) * K, K)
       /\ Q = K + 1 =>
            /\ Len(TriSubs) = 2
            /\ Len(TriSubs[1]) = 6 * K
            /\ Len(TriSubs[2]) = 6
            /\ \A i \in 1..6 : TriSubs[2][i] = TriSubs[1][i] + 4 * K

\* C5 witness: a flat QUADS draw of 4*(K+1) vertices from first = 3 has made
\* its two submissions.
C5_Witness ==
  /\ TriangleDraw("GL_QUADS") /\ shadeMode = "GL_FLAT"
  /\ DFirst = 3 /\ DCount = 4 * (K + 1)
  /\ Len(TriSubs) = 2
  /\ TriSubs[2][1] = 3 + 4 * K

\* ---------------------------------------------------------------- C10
\* C10: a QUAD_STRIP draw of masked count c >= 4, Q = c/2 - 1 strip steps,
\* makes exactly ceil(Q/K) indexed submissions, the j-th carrying
\* n = min(remaining steps, K) >= 1 steps (6n triangle indices or 6n+2 line
\* indices); no submission carries zero steps.
C10_StripChunks ==
  (IsDraw /\ DMode = "GL_QUAD_STRIP" /\ DCount >= 4
     /\ KindsOf(calls) \cap {"GL_TRIANGLES", "GL_LINES"} # {}) =>
    LET Q == (DCount - (DCount % 2)) \div 2 - 1
        tri == "GL_TRIANGLES" \in KindsOf(calls)
        subs == IF tri THEN TriSubs ELSE LineSubs
        extra == IF tri THEN 0 ELSE 2
    IN /\ Len(subs) = (Q + K - 1) \div K
       /\ \A j \in 1..Len(subs) :
            LET n == Min(Q - (j - 1) * K, K)
            IN n >= 1 /\ Len(subs[j]) = 6 * n + extra

\* ---------------------------------------------------------------- C6
\* The active face style set of the resolver.
ActiveStyles ==
  IF ~cullingFaces THEN {frontFaceMode, backFaceMode}
  ELSE IF cullFace = "GL_BACK" THEN {frontFaceMode}
  ELSE IF cullFace = "GL_FRONT" THEN {backFaceMode}
  ELSE { }

\* C6: a draw with count >= 4 (not culled on both faces) emits triangles if
\* FILL is in the active face style set, else lines if LINE is in it, else
\* points if POINT is in it, and uses exactly one of the three output kinds.
C6_ModePriority ==
  (IsDraw /\ DMode \in QuadModes /\ DCount >= 4
     /\ ~(cullingFaces /\ cullFace = "GL_FRONT_AND_BACK")) =>
    /\ "GL_FILL" \in ActiveStyles => KindsOf(calls) = {"GL_TRIANGLES"}
    /\ ("GL_FILL" \notin ActiveStyles /\ "GL_LINE" \in ActiveStyles)
         => KindsOf(calls) = {"GL_LINES"}
    /\ ("GL_FILL" \notin ActiveStyles /\ "GL_LINE" \notin ActiveStyles
          /\ "GL_POINT" \in ActiveStyles)
         => KindsOf(calls) = {"GL_POINTS"}
    /\ Cardinality(KindsOf(calls)) = 1

\* ---------------------------------------------------------------- C7
SetterOps == {"glFrontFace", "glPolygonMode", "glShadeModel", "glProvokingVertex",
              "glCullFace"}

\* Whether every argument of the setter call c is a value that setter
\* recognizes.
Recognized(c) ==
  IF c.op = "glFrontFace" THEN c.args[1] \in Windings
  ELSE IF c.op = "glPolygonMode" THEN c.args[1] \in Faces /\ c.args[2] \in Styles
  ELSE IF c.op = "glShadeModel" THEN c.args[1] \in ShadeModels
  ELSE IF c.op = "glProvokingVertex" THEN c.args[1] \in ProvokeModes
  ELSE IF c.op = "glCullFace" THEN c.args[1] \in Faces
  ELSE TRUE

\* C7: a setter called with an argument it does not recognize (including
\* an unrecognized fill style given to glPolygonMode with a valid face)
\* leaves every field unchanged, so frontFaceMode and backFaceMode are
\* always in {FILL, LINE, POINT}.
C7_SettersValidate ==
  [][ /\ (call'.op \in SetterOps /\ ~Recognized(call')) => tracked' = tracked
      /\ frontFaceMode' \in Styles
      /\ backFaceMode' \in Styles
    ]_vars

\* ---------------------------------------------------------------- C8
\* C8: a QUADS or QUAD_STRIP draw returns false exactly when count < 0 and
\* true otherwise; when count < 4, or culling is enabled with cull target
\* FRONT_AND_BACK, it issues no downstream call and changes neither the
\* tracked state nor the next layer.
C8_Validation ==
  [][ (call'.op = "glDrawArrays" /\ call'.args[1] \in QuadModes) =>
        /\ ret' \in {"true", "false"}
        /\ (ret' = "false") <=> (call'.args[3] < 0)
        /\ (call'.args[3] < 4 \/ (cullingFaces /\ cullFace = "GL_FRONT_AND_BACK"))
             => /\ calls' = << >>
                /\ tracked' = tracked
                /\ nextLayer' = nextLayer
    ]_vars

\* C8 witness: a draw of enough vertices returned true without a
\* downstream call because both faces are culled, with one face in LINE.
C8_Witness ==
  /\ IsDraw /\ DMode = "GL_QUAD_STRIP" /\ DCount >= 4
  /\ cullingFaces /\ cullFace = "GL_FRONT_AND_BACK"
  /\ frontFaceMode = "GL_LINE"
  /\ ret = "true" /\ calls = << >>

\* ---------------------------------------------------------------- C9
PolyCallsOf(cs) == SelectSeq(cs, LAMBDA c : c.fn = "glPolygonMode")

\* The position of the last submission among the calls cs.
LastSubmission(cs) ==
  CHOOSE k \in 1..Len(cs) :
    /\ cs[k].fn \in {"glDrawElements", "glDrawArrays"}
    /\ \A j \in (k + 1)..Len(cs) : cs[j].fn \notin {"glDrawElements", "glDrawArrays"}

StyleOfKind(kind) ==
  IF kind = "GL_TRIANGLES" THEN "GL_FILL"
  ELSE IF kind = "GL_LINES" THEN "GL_LINE" ELSE "GL_POINT"

\* C9: for every draw that emits geometry, with style the fill style of the
\* emitted kind: if both faces already have it no polygon-mode call is
\* issued; otherwise the first call sets it on both faces, before any
\* submission, and after the last submission exactly the faces whose
\* tracked style differs are set back to it (front, then back), with no
\* other polygon-mode call; the draw leaves frontFaceMode and backFaceMode
\* alone, and a next layer that agreed with them before agrees again after.
C9_ForceRestore ==
  [][ (call'.op = "glDrawArrays" /\ KindsOf(calls') # { }) =>
        LET cs == calls'
            style == StyleOfKind(CHOOSE kind \in KindsOf(cs) : TRUE)
            restore ==
              (IF frontFaceMode # style
               THEN <<PolygonModeCall("GL_FRONT", frontFaceMode)>> ELSE << >>)
              \o (IF backFaceMode # style
                  THEN <<PolygonModeCall("GL_BACK", backFaceMode)>> ELSE << >>)
        IN /\ Cardinality(KindsOf(cs)) = 1
           /\ frontFaceMode' = frontFaceMode
           /\ backFaceMode' = backFaceMode
           /\ IF frontFaceMode = style /\ backFaceMode = style
              THEN PolyCallsOf(cs) = << >>
              ELSE /\ cs[1] = PolygonModeCall("GL_FRONT_AND_BACK", style)
                   /\ PolyCallsOf(cs) =
                        <<PolygonModeCall("GL_FRONT_AND_BACK", style)>> \o restore
                   /\ PolyCallsOf(SubSeq(cs, LastSubmission(cs) + 1, Len(cs)))
                        = restore
           /\ (dsFrontMode = frontFaceMode /\ dsBackMode = backFaceMode)
                => (dsFrontMode' = frontFaceMode' /\ dsBackMode' = backFaceMode')
    ]_vars

\* C9 witness: an outline draw with front LINE and back POINT forced LINE
\* on both faces and then set the back face to POINT again.
C9_Witness ==
  /\ IsDraw /\ KindsOf(calls) = {"GL_LINES"}
  /\ frontFaceMode = "GL_LINE" /\ backFaceMode = "GL_POINT"
  /\ calls[1] = PolygonModeCall("GL_FRONT_AND_BACK", "GL_LINE")
  /\ calls[Len(calls)] = PolygonModeCall("GL_BACK", "GL_POINT")
  /\ Len(PolyCallsOf(calls)) = 2
  /\ dsBackMode = "GL_POINT" /\ dsFrontMode = "GL_LINE"

\* ---------------------------------------------------------------- C11
\* Every vertex index of every indexed submission among the calls.
SubmittedIndices ==
  LET all == Flatten(TriSubs) \o Flatten(LineSubs)
  IN {all[k] : k \in 1..Len(all)}

\* C11: for every draw of count >= 4, every vertex index of every indexed
\* submission (triangles or lines, every chunk) lies in
\* [first, first + c - 1], c being count masked to a multiple of 4 (QUADS)
\* or 2 (QUAD_STRIP); and for a QUAD_STRIP outline under flat shading with
\* the first-vertex convention active and more than K strip steps, the last
\* two indices of the last chunk are the strip's trailing edge
\* (first + c - 1, first + c - 2).
C11_IndexRange ==
  (IsDraw /\ DMode \in QuadModes /\ DCount >= 4) =>
    LET c == IF DMode = "GL_QUADS" THEN DCount - (DCount % 4)
             ELSE DCount - (DCount % 2)
    IN /\ \A v \in SubmittedIndices : DFirst <= v /\ v <= DFirst + c - 1
       /\ (DMode = "GL_QUAD_STRIP" /\ KindsOf(calls) = {"GL_LINES"}
             /\ shadeMode = "GL_FLAT" /\ convention
             /\ provokeMode = "GL_FIRST_VERTEX_CONVENTION"
             /\ c \div 2 - 1 > K)
            => LET lastChunk == LineSubs[Len(LineSubs)]
               IN SubSeq(lastChunk, Len(lastChunk) - 1, Len(lastChunk))
                    = <<DFirst + c - 1, DFirst + c - 2>>

====
